---- MODULE Spec2Model ----
(***************************************************************************)
(* Chart.jsx: the Chart component (axis and legend derivation, per-item    *)
(* render dispatch, chart composition, width floor) and the Sized          *)
(* component that measures its container and publishes the width.          *)
(*                                                                         *)
(* JavaScript values are encoded as follows.  An optional value (a prop    *)
(* that may be absent) is a sequence of length 0 or 1.  An element         *)
(* reference is one of the strings "undefined", "null", "div".  A React    *)
(* element is a record whose field  op  names the component or the         *)
(* function that produced it.  Array indexes are 0-based as in the source. *)
(***************************************************************************)
EXTENDS Integers, Sequences, FiniteSets, TLC

\* ------------------------------------------------------------------ bounds
\* Number of mount/unmount cycles of the chart (each cycle is a new
\* component instance).
MaxMounts == 2
\* Longest chart item list drawn in InitChart.
MaxItems == 2

\* --------------------------------------------------------- program constants
chartMinWidth == 110
defaultHeight == 110

\* ------------------------------------------------------------ JS encodings
None == <<>>
Some(v) == <<v>>

\* JS truthiness of an optional number: undefined and 0 are falsy.
TruthyNum(o) == Len(o) = 1 /\ o[1] # 0

\* JS truthiness of an optional object: only undefined is falsy here.
TruthyObj(o) == Len(o) = 1

\* JS truthiness of an element reference.
TruthyRef(el) == el \notin {"undefined", "null"}

\* Math.max of two numbers.
MathMax(a, b) == IF a >= b THEN a ELSE b

Instances == 1..MaxMounts

VARIABLES
  props,             \* this.props of the Chart, as the host supplied them
  phase,             \* per instance: "unborn", "mounted", "unmounted"
  containerElement,  \* per instance: Sized.containerElement
  width,             \* per instance: Sized.width
  renderPending,     \* per instance: the observer reaction has a re-render due
  out,               \* per instance: what the last Sized.render produced
  listeners,         \* the window's "resize" listeners, in registration order
  nextFn,            \* identity of the next function object that bind() makes
  rectWidth,         \* getBoundingClientRect().width of the container element
  lateCalls,         \* per instance: updateWidth ran after the unmount, with
                     \* the container's width different from this.width
  chart,             \* SpecChart: the getters and render() applied to props
  cache,             \* per instance: the values the @computed getters yAxes
                     \* and legends hold while the render reaction observes
                     \* them; absent when they are not observed or are stale
  renders,           \* per instance: "none", "first" or "later", how many
                     \* times Sized.render has run
  notes              \* per mounted instance: the container widths at the
                     \* last two resize notifications it processed

vars == <<props, phase, containerElement, width, renderPending, out,
          listeners, nextFn, rectWidth, lateCalls, chart, cache, renders, notes>>

\* ------------------------------------------------------------- chart items
\* A chart item is a record [type, units, name, points, color]; color is
\* what its getColor() accessor returns.
getColor(item) == item.color

Undefined == [op |-> "undefined"]
Null == [op |-> "null"]

\* ------------------------------------------------------ Chart.defaultProps
\* renderXAxis: label => <VictoryAxis label={label} />
defaultRenderXAxis(label) == [op |-> "VictoryAxis", label |-> label]

\* renderYAxis: ({ label }, i) => <VictoryAxis dependentAxis key={i} label={label} />
\* The parameter is destructured for a property named label; a property the
\* object does not have reads as undefined.
defaultRenderYAxis(yAxis, i, count) ==
  [op |-> "VictoryAxis", dependentAxis |-> TRUE, key |-> i,
   label |-> IF "label" \in DOMAIN yAxis THEN yAxis["label"] ELSE "undefined"]

\* renderLegends: (legends, width) => <VictoryLegend x={width / 2} ... />
\* x is kept as the fraction <<numerator, denominator>>.
defaultRenderLegends(legends, w) ==
  [op |-> "VictoryLegend", x |-> <<w, 2>>, orientation |-> "horizontal",
   data |-> legends, centerTitle |-> TRUE]

\* height: 110 unless the host supplies one.
propsHeight(p) == IF Len(p.height) = 1 THEN p.height[1] ELSE defaultHeight

\* theme: VictoryTheme.material unless the host supplies one.
propsTheme(p) == IF Len(p.theme) = 1 THEN p.theme[1] ELSE "VictoryTheme.material"

\* ------------------------------------------------------------ Chart.yAxes
\* A mutant of uniqBy: deduplicates, but returns the survivors sorted by
\* units ("m" before "s") instead of in first-seen order.
RECURSIVE uniqBySortedUpTo(_, _)
uniqBySortedUpTo(array, k) ==
  IF k = 0 THEN <<>>
  ELSE LET result == uniqBySortedUpTo(array, k - 1)
           value == array[k]
       IN  IF \E j \in 1..Len(result) : result[j].units = value.units
           THEN result
           ELSE IF value.units = "m" THEN <<value>> \o result
                ELSE Append(result, value)

uniqBySorted(array) == uniqBySortedUpTo(array, Len(array))

\* A mutant of uniqBy: one survivor per units value in first-seen position,
\* but the survivor is the last item seen with that units value.
RECURSIVE uniqByKeepLastUpTo(_, _)
uniqByKeepLastUpTo(array, k) ==
  IF k = 0 THEN <<>>
  ELSE LET result == uniqByKeepLastUpTo(array, k - 1)
           value == array[k]
       IN  IF \E j \in 1..Len(result) : result[j].units = value.units
           THEN [j \in 1..Len(result) |->
                   IF result[j].units = value.units THEN value ELSE result[j]]
           ELSE Append(result, value)

uniqByKeepLast(array) == uniqByKeepLastUpTo(array, Len(array))

\* lodash baseUniq with an iteratee: walk the array in order, keep a value
\* when its computed key (units) was not seen before.  uniqByUpTo(array, k)
\* is the result after the first k values.
RECURSIVE uniqByUpTo(_, _)
uniqByUpTo(array, k) ==
  IF k = 0 THEN <<>>
  ELSE LET result == uniqByUpTo(array, k - 1)
           value == array[k]
       IN  IF \E j \in 1..Len(result) : result[j].units = value.units
           THEN result
           ELSE Append(result, value)

\* uniqBy(this.props.chartItems, ({ units }) => units)
uniqBy(array) == uniqByUpTo(array, Len(array))

\* get yAxes()
Chart_yAxes(p) ==
  LET u == uniqBy(p.chartItems)
  IN  [j \in 1..Len(u) |-> [units |-> u[j].units, color |-> getColor(u[j])]]

\* ----------------------------------------------------------- Chart.legends
\* A mutant of legends: one legend entry per axis group instead of per item.
Chart_legendsPerUnit(p) ==
  LET u == uniqBy(p.chartItems)
  IN  [j \in 1..Len(u) |->
        [name |-> u[j].name,
         symbol |-> [fill |-> getColor(u[j]), type |-> "square"],
         labels |-> [fill |-> "white"]]]

\* get legends()
Chart_legends(p) ==
  [j \in 1..Len(p.chartItems) |->
    [name |-> p.chartItems[j].name,
     symbol |-> [fill |-> getColor(p.chartItems[j]), type |-> "square"],
     labels |-> [fill |-> "white"]]]

\* ------------------------------------------------------ @computed (mobx)
\* The Chart instance a render works on: its props and the state of its two
\* @computed getters.
chartInstance(p, computed) ==
  [width |-> p.width, height |-> p.height, domain |-> p.domain,
   chartItems |-> p.chartItems, xAxis |-> p.xAxis,
   containerComponent |-> p.containerComponent, theme |-> p.theme,
   renderLine |-> p.renderLine, computed |-> computed]

\* The getters hold a value: the instance has observed, up-to-date computeds.
holdsComputed(this) == "computed" \in DOMAIN this /\ Len(this["computed"]) = 1

\* Reading this.yAxes: a @computed getter that is observed and whose
\* observable dependencies have not changed returns the value it holds;
\* otherwise the getter's body runs.
read_yAxes(this) ==
  IF holdsComputed(this) THEN this["computed"][1].yAxes ELSE Chart_yAxes(this)

\* Reading this.legends, likewise.
read_legends(this) ==
  IF holdsComputed(this) THEN this["computed"][1].legends ELSE Chart_legends(this)

\* -------------------------------------------------------- Chart.renderLine
\* renderLine(data, index): a VictoryLine over the points, each annotated
\* with the item's units and name.
Chart_renderLine(data, index) ==
  [op |-> "VictoryLine", key |-> index,
   data |-> [j \in 1..Len(data.points) |->
              [x |-> data.points[j].x, y |-> data.points[j].y,
               units |-> data.units, name |-> data.name]],
   style |-> [data |-> [stroke |-> getColor(data)],
              labels |-> [fill |-> getColor(data)]]]

\* The imported strategies and a host override are external: the model
\* keeps the call, that is the function and the arguments it was given.
renderMomentLines(chartItem, index) ==
  [op |-> "renderMomentLines",
   args |-> [chartItem |-> chartItem, index |-> index]]

renderMomentPoints(chartItem, chartItems, index) ==
  [op |-> "renderMomentPoints",
   args |-> [chartItem |-> chartItem, chartItems |-> chartItems, index |-> index]]

hostRenderLine(fn, chartItem, index) ==
  [op |-> fn, args |-> [chartItem |-> chartItem, index |-> index]]

\* --------------------------------------------------- Chart.renderChartItem
\* A mutant of renderChartItem: the if/else chain ends in a default branch
\* that draws every other type as a line.
Chart_renderChartItemDefaultLine(p, chartItem, chartItems, index) ==
  IF chartItem.type = "momentLines" THEN renderMomentLines(chartItem, index)
  ELSE IF chartItem.type = "momentPoints"
       THEN renderMomentPoints(chartItem, chartItems, index)
  ELSE IF TruthyObj(p.renderLine)
       THEN hostRenderLine(p.renderLine[1], chartItem, index)
       ELSE Chart_renderLine(chartItem, index)

\* A mutant of renderChartItem: the strategies are given a 1-based index.
Chart_renderChartItemOneBased(p, chartItem, chartItems, index) ==
  IF chartItem.type = "line"
  THEN IF TruthyObj(p.renderLine)
       THEN hostRenderLine(p.renderLine[1], chartItem, index + 1)
       ELSE Chart_renderLine(chartItem, index + 1)
  ELSE IF chartItem.type = "momentLines"
       THEN renderMomentLines(chartItem, index + 1)
  ELSE IF chartItem.type = "momentPoints"
       THEN renderMomentPoints(chartItem, chartItems, index + 1)
  ELSE Undefined

\* A mutant of renderChartItem: the renderLine prop is ignored.
Chart_renderChartItemIgnoreOverride(p, chartItem, chartItems, index) ==
  IF chartItem.type = "line" THEN Chart_renderLine(chartItem, index)
  ELSE IF chartItem.type = "momentLines"
       THEN renderMomentLines(chartItem, index)
  ELSE IF chartItem.type = "momentPoints"
       THEN renderMomentPoints(chartItem, chartItems, index)
  ELSE Undefined

\* A mutant of renderChartItem: renderMomentLines is called like
\* renderMomentPoints, with the item list as its second argument.
Chart_renderChartItemSiblingsToAll(p, chartItem, chartItems, index) ==
  IF chartItem.type = "line"
  THEN IF TruthyObj(p.renderLine)
       THEN hostRenderLine(p.renderLine[1], chartItem, index)
       ELSE Chart_renderLine(chartItem, index)
  ELSE IF chartItem.type = "momentLines"
       THEN [op |-> "renderMomentLines",
             args |-> [chartItem |-> chartItem, chartItems |-> chartItems,
                       index |-> index]]
  ELSE IF chartItem.type = "momentPoints"
       THEN renderMomentPoints(chartItem, chartItems, index)
  ELSE Undefined

\* renderChartItem(chartItem, chartItems, index); a function that falls off
\* its end returns undefined.
Chart_renderChartItem(p, chartItem, chartItems, index) ==
  IF chartItem.type = "line"
  THEN IF TruthyObj(p.renderLine)
       THEN hostRenderLine(p.renderLine[1], chartItem, index)
       ELSE Chart_renderLine(chartItem, index)
  ELSE IF chartItem.type = "momentLines"
       THEN renderMomentLines(chartItem, index)
  ELSE IF chartItem.type = "momentPoints"
       THEN renderMomentPoints(chartItem, chartItems, index)
  ELSE Undefined

\* ------------------------------------------------------- Chart.renderChart
\* this.props.chartItems.some(c => c.points.length > 0)
hasData(chartItems) ==
  \E j \in 1..Len(chartItems) : Len(chartItems[j].points) > 0

\* The "No data available" placeholder.
noDataDiv(height) ==
  [op |-> "div", className |-> "Styles.noData",
   style |-> [height |-> height], children |-> "No data available"]

\* The <VictoryChart> element; its children are, in order, the legend, the
\* X axis, the Y axes (one per entry of yAxes) and the chart items (one
\* entry per item, undefined where renderChartItem returned nothing).
victoryChart(p, w, h) ==
  LET yAxes == read_yAxes(p)
      items == p.chartItems
  IN  [op |-> "VictoryChart", width |-> w, height |-> h,
       domain |-> p.domain, theme |-> propsTheme(p),
       scale |-> p.xAxis[1].scale,
       containerComponent |-> p.containerComponent,
       children |->
         << defaultRenderLegends(read_legends(p), w),
            defaultRenderXAxis(p.xAxis[1].units),
            [j \in 1..Len(yAxes) |->
               defaultRenderYAxis(yAxes[j], j - 1, Len(yAxes))],
            [j \in 1..Len(items) |->
               Chart_renderChartItem(p, items[j], items, j - 1)] >>]

\* A mutant of renderChart: the empty-data guard is tested before the
\* missing-X-axis guard.
Chart_renderChartDataFirst(p, w, h) ==
  IF hasData(p.chartItems) = FALSE THEN noDataDiv(h)
  ELSE IF ~TruthyObj(p.xAxis) THEN Null
  ELSE victoryChart(p, w, h)

\* A mutant of renderChart: hasData asks for every item to have points.
Chart_renderChartEvery(p, w, h) ==
  IF ~TruthyObj(p.xAxis) THEN Null
  ELSE IF ~(\A j \in 1..Len(p.chartItems) : Len(p.chartItems[j].points) > 0)
       THEN noDataDiv(h)
  ELSE victoryChart(p, w, h)

\* renderChart(width, height)
Chart_renderChart(p, w, h) ==
  IF ~TruthyObj(p.xAxis) THEN Null
  ELSE IF hasData(p.chartItems) = FALSE THEN noDataDiv(h)
  ELSE victoryChart(p, w, h)

\* ------------------------------------------------------------ Chart.render
\* A mutant of the width expression:  this.props.width ?? parentWidth
\* (only an absent width prop falls back to the measured width).
effectiveWidthNullish(propWidth, parentWidth) ==
  MathMax(chartMinWidth, IF Len(propWidth) = 1 THEN propWidth[1] ELSE parentWidth)

\* A mutant of the width expression: the minimum-width floor is missing.
effectiveWidthNoFloor(propWidth, parentWidth) ==
  IF TruthyNum(propWidth) THEN propWidth[1] ELSE parentWidth

\* Math.max(chartMinWidth, this.props.width || parentWidth)
effectiveWidth(propWidth, parentWidth) ==
  MathMax(chartMinWidth, IF TruthyNum(propWidth) THEN propWidth[1] ELSE parentWidth)

\* The function Chart.render hands to Sized as its child: called with
\* { width: parentWidth }, it calls renderChart.  The model keeps the
\* arguments of that call next to the element it returned.
Chart_render(p, parentWidth) ==
  LET w == effectiveWidth(p.width, parentWidth)
      h == propsHeight(p)
  IN  [width |-> w, height |-> h, element |-> Chart_renderChart(p, w, h)]

\* ------------------------------------------------------------------- Sized
\* A mutant of attachElement: a null reference is ignored, so the element
\* stays attached when React detaches the ref.
Sized_attachElementKeep(current, el) == IF el = "null" THEN current ELSE el

\* attachElement(el): this.containerElement = el
Sized_attachElement(current, el) == el

\* A mutant of updateWidth: the guard is negated, so an attached element is
\* never measured.
Sized_updateWidthNegated(el, w, rect) == IF ~TruthyRef(el) THEN rect ELSE w

\* A mutant of updateWidth: the guard is missing, so the width is replaced
\* whether or not an element is attached.
Sized_updateWidthUnguarded(el, w, rect) == rect

\* updateWidth(): the new value of this.width, given this.containerElement,
\* this.width and the element's getBoundingClientRect().width.
Sized_updateWidth(el, w, rect) == IF TruthyRef(el) THEN rect ELSE w

\* this.updateWidth.bind(this): a new function object at every evaluation,
\* identified by a fresh id, that calls updateWidth on the instance.
bindUpdateWidth(i, id) == [id |-> id, this |-> i]

\* window.addEventListener("resize", fn): fn is appended unless that same
\* function object is registered already.
addEventListener(ls, fn) ==
  IF \E k \in 1..Len(ls) : ls[k] = fn THEN ls ELSE Append(ls, fn)

\* window.removeEventListener("resize", fn): removes the registered
\* function object identical to fn, if there is one.
removeEventListener(ls, fn) == SelectSeq(ls, LAMBDA g : g # fn)

\* A mutant of Sized.render: the child is given the initial width instead of
\* this.width.
Sized_renderInitialWidth(p, w) == [op |-> "div", children |-> Chart_render(p, 0)]

\* Sized.render(): a div whose ref is attachElement and whose content is
\* this.props.children({ width: this.width }).
Sized_render(p, w) == [op |-> "div", children |-> Chart_render(p, w)]

\* What the getters hold after Sized.render() ran on the Chart instance
\* this and returned rendered: the render reaction observes yAxes and
\* legends when renderChart read them, that is when it composed a
\* VictoryChart; getters no reaction observes hold nothing.
computedAfterRender(this, rendered) ==
  IF rendered.children.element.op = "VictoryChart"
  THEN Some([yAxes |-> read_yAxes(this), legends |-> read_legends(this)])
  ELSE None

\* Sized.render() has run once more.
countRender(n) == IF n = "none" THEN "first" ELSE "later"

\* The last two of the widths noted, after one more.
noteWidth(seq, w) ==
  IF Len(seq) < 2 THEN Append(seq, w) ELSE <<seq[2], w>>

\* The window dispatches one "resize" event: every registered listener runs
\* in registration order, each calling updateWidth on the instance it is
\* bound to.  dispatchResize(ls, k, els, w, rect) is the width of every
\* instance after the listeners from position k on have run.
RECURSIVE dispatchResize(_, _, _, _, _)
dispatchResize(ls, k, els, w, rect) ==
  IF k > Len(ls) THEN w
  ELSE LET i == ls[k].this
       IN  dispatchResize(ls, k + 1, els,
             [w EXCEPT ![i] = Sized_updateWidth(els[i], w[i], rect)], rect)

\* --------------------------------------------------------------- the inputs
Units == {"m", "s"}
Types == {"line", "momentLines", "momentPoints", "unknownKind"}
PointSeqs == { <<>>, <<[x |-> 0, y |-> 1]>> }

\* The data series a host can chart: a series has a name and a colour.
Series == { [name |-> "A", color |-> "red"], [name |-> "B", color |-> "blue"] }

ChartItems ==
  { [type |-> t, units |-> u, name |-> s.name, points |-> pts, color |-> s.color] :
      t \in Types, u \in Units, s \in Series, pts \in PointSeqs }

RECURSIVE SeqsUpTo(_, _)
SeqsUpTo(S, n) ==
  IF n = 0 THEN { <<>> }
  ELSE LET shorter == SeqsUpTo(S, n - 1)
       IN  shorter \cup { Append(q, x) : q \in shorter, x \in S }

ItemLists == SeqsUpTo(ChartItems, MaxItems)

XAxes == { None, Some([units |-> "time", scale |-> "time"]) }
PropWidths == { None, Some(0), Some(90), Some(200) }
PropHeights == { None, Some(200) }
RectWidths == { 0, 80, 300 }

\* The item list of the charts of Spec: the three series of the example.
ExampleItems ==
  << [type |-> "line", units |-> "m", name |-> "A",
      points |-> <<[x |-> 0, y |-> 1]>>, color |-> "red"],
     [type |-> "line", units |-> "m", name |-> "B",
      points |-> <<[x |-> 0, y |-> 2]>>, color |-> "blue"],
     [type |-> "momentLines", units |-> "m", name |-> "C",
      points |-> <<[x |-> 0, y |-> 0]>>, color |-> "green"] >>

mkProps(w, h, items, xAxis, renderLine) ==
  [width |-> w, height |-> h, domain |-> None, chartItems |-> items,
   xAxis |-> xAxis, containerComponent |-> None, theme |-> None,
   renderLine |-> renderLine]

\* ------------------------------------------------------- the initial states
\* Nothing is mounted: a Sized instance is constructed with
\* containerElement undefined and width 0.
InitSized ==
  /\ phase = [i \in Instances |-> "unborn"]
  /\ containerElement = [i \in Instances |-> "undefined"]
  /\ width = [i \in Instances |-> 0]
  /\ renderPending = [i \in Instances |-> FALSE]
  /\ out = [i \in Instances |-> Undefined]
  /\ listeners = <<>>
  /\ nextFn = 1
  /\ lateCalls = [i \in Instances |-> FALSE]
  /\ cache = [i \in Instances |-> None]
  /\ renders = [i \in Instances |-> "none"]
  /\ notes = [i \in Instances |-> <<>>]

NotEvaluated ==
  [evaluated |-> FALSE, yAxes |-> <<>>, legends |-> <<>>,
   rendered |-> [width |-> 0, height |-> 0, element |-> Undefined]]

Init ==
  /\ InitSized
  /\ \E w \in PropWidths :
       props = mkProps(w, None, ExampleItems,
                       Some([units |-> "time", scale |-> "time"]), None)
  /\ rectWidth \in RectWidths
  /\ chart = NotEvaluated

InitChart ==
  /\ InitSized
  /\ \E h \in PropHeights, items \in ItemLists, x \in XAxes,
        rl \in { None, Some("props.renderLine") } :
       props = mkProps(None, h, items, x, rl)
  /\ rectWidth = 0
  /\ chart = NotEvaluated

\* --------------------------------------------------------------- lifecycle
\* A mutant of Mount: the container is measured before the first render
\* instead of in componentDidMount.
MountMeasuringFirst(i) ==
  /\ phase[i] = "unborn"
  /\ IF i = 1 THEN TRUE ELSE phase[i - 1] = "unmounted"
  /\ LET this == chartInstance(props, cache[i])
         rendered == Sized_render(this, rectWidth)
     IN  /\ out' = [out EXCEPT ![i] = rendered]
         /\ cache' = [cache EXCEPT ![i] = computedAfterRender(this, rendered)]
  /\ containerElement' = [containerElement EXCEPT ![i] = "div"]
  /\ width' = [width EXCEPT ![i] = rectWidth]
  /\ renderPending' = [renderPending EXCEPT ![i] = FALSE]
  /\ listeners' = addEventListener(listeners, bindUpdateWidth(i, nextFn))
  /\ nextFn' = nextFn + 1
  /\ phase' = [phase EXCEPT ![i] = "mounted"]
  /\ renders' = [renders EXCEPT ![i] = countRender(renders[i])]
  /\ UNCHANGED <<props, rectWidth, lateCalls, chart, notes>>

\* React mounts the chart as instance i, in one synchronous commit:
\* the first Sized.render(), the ref callback with the div,
\* componentDidMount().  A chart is mounted when the one before it is gone.
Mount(i) ==
  /\ phase[i] = "unborn"
  /\ IF i = 1 THEN TRUE ELSE phase[i - 1] = "unmounted"
  /\ LET this == chartInstance(props, cache[i])
         rendered == Sized_render(this, width[i])
         el == Sized_attachElement(containerElement[i], "div")
         \* componentDidMount: this.updateWidth()
         w == Sized_updateWidth(el, width[i], rectWidth)
         \* componentDidMount: window.addEventListener("resize", bind)
         fn == bindUpdateWidth(i, nextFn)
     IN  /\ out' = [out EXCEPT ![i] = rendered]
         /\ cache' = [cache EXCEPT ![i] = computedAfterRender(this, rendered)]
         /\ containerElement' = [containerElement EXCEPT ![i] = el]
         /\ width' = [width EXCEPT ![i] = w]
         /\ renderPending' = [renderPending EXCEPT ![i] = (w # width[i])]
         /\ listeners' = addEventListener(listeners, fn)
         /\ nextFn' = nextFn + 1
  /\ phase' = [phase EXCEPT ![i] = "mounted"]
  /\ renders' = [renders EXCEPT ![i] = countRender(renders[i])]
  /\ UNCHANGED <<props, rectWidth, lateCalls, chart, notes>>

\* A mutant of Rerender: the ref callback measures the element it is given.
RerenderMeasuring(i) ==
  /\ phase[i] = "mounted"
  /\ LET this == chartInstance(props, cache[i])
         rendered == Sized_render(this, width[i])
     IN  /\ out' = [out EXCEPT ![i] = rendered]
         /\ cache' = [cache EXCEPT ![i] = computedAfterRender(this, rendered)]
  /\ renders' = [renders EXCEPT ![i] = countRender(renders[i])]
  /\ containerElement' = [containerElement EXCEPT ![i] = "div"]
  /\ width' = [width EXCEPT ![i] = rectWidth]
  /\ renderPending' = [renderPending EXCEPT ![i] = FALSE]
  /\ UNCHANGED <<props, phase, listeners, nextFn, rectWidth, lateCalls,
                 chart, notes>>

\* React renders mounted instance i again (the observer reaction after a
\* width change, or the host rendering again): Sized.render(), then, as the
\* ref is a new bound function, the old ref callback with null and the new
\* one with the div.
Rerender(i) ==
  /\ phase[i] = "mounted"
  /\ LET this == chartInstance(props, cache[i])
         rendered == Sized_render(this, width[i])
     IN  /\ out' = [out EXCEPT ![i] = rendered]
         /\ cache' = [cache EXCEPT ![i] = computedAfterRender(this, rendered)]
  /\ renders' = [renders EXCEPT ![i] = countRender(renders[i])]
  /\ containerElement' =
       [containerElement EXCEPT ![i] =
          Sized_attachElement(Sized_attachElement(containerElement[i], "null"), "div")]
  /\ renderPending' = [renderPending EXCEPT ![i] = FALSE]
  /\ UNCHANGED <<props, phase, width, listeners, nextFn, rectWidth, lateCalls,
                 chart, notes>>

\* React unmounts instance i, in one synchronous commit:
\* componentWillUnmount(), then the ref callback with null.  The render
\* reaction is disposed, so the getters are no longer observed.
Unmount(i) ==
  /\ phase[i] = "mounted"
  /\ LET fn == bindUpdateWidth(i, nextFn)
     IN  /\ listeners' = removeEventListener(listeners, fn)
         /\ nextFn' = nextFn + 1
  /\ containerElement' =
       [containerElement EXCEPT ![i] = Sized_attachElement(containerElement[i], "null")]
  /\ phase' = [phase EXCEPT ![i] = "unmounted"]
  /\ renderPending' = [renderPending EXCEPT ![i] = FALSE]
  /\ cache' = [cache EXCEPT ![i] = None]
  /\ notes' = [notes EXCEPT ![i] = <<>>]
  /\ UNCHANGED <<props, width, out, rectWidth, lateCalls, chart, renders>>

\* The layout changes the rendered width of the container.
Reflow(w) ==
  /\ w # rectWidth
  /\ rectWidth' = w
  /\ UNCHANGED <<props, phase, containerElement, width, renderPending, out,
                 listeners, nextFn, lateCalls, chart, cache, renders, notes>>

\* The window fires "resize".
Resize ==
  /\ width' = dispatchResize(listeners, 1, containerElement, width, rectWidth)
  /\ renderPending' =
       [i \in Instances |->
          renderPending[i] \/ (phase[i] = "mounted" /\ width'[i] # width[i])]
  /\ lateCalls' =
       [i \in Instances |->
          lateCalls[i] \/ (phase[i] = "unmounted" /\ rectWidth # width[i]
                           /\ \E k \in 1..Len(listeners) : listeners[k].this = i)]
  /\ notes' =
       [i \in Instances |->
          IF phase[i] = "mounted"
             /\ \E k \in 1..Len(listeners) : listeners[k].this = i
          THEN noteWidth(notes[i], rectWidth)
          ELSE notes[i]]
  /\ UNCHANGED <<props, phase, containerElement, out, listeners, nextFn,
                 rectWidth, chart, cache, renders>>

Next ==
  \/ \E i \in Instances : Mount(i)
  \/ \E i \in Instances : Rerender(i)
  \/ \E i \in Instances : Unmount(i)
  \/ \E w \in RectWidths : Reflow(w)
  \/ Resize

Spec == Init /\ [][Next]_vars

\* ------------------------------------------------- the chart as a function
\* The getters yAxes and legends are read and the render function is called
\* on a Chart holding props, with Sized publishing its initial width.
Evaluate ==
  /\ chart.evaluated = FALSE
  /\ chart' = [evaluated |-> TRUE,
               yAxes |-> Chart_yAxes(props),
               legends |-> Chart_legends(props),
               rendered |-> Chart_render(props, width[1])]
  /\ UNCHANGED <<props, phase, containerElement, width, renderPending, out,
                 listeners, nextFn, rectWidth, lateCalls, cache, renders, notes>>

NextChart == Evaluate

SpecChart == InitChart /\ [][NextChart]_vars

\* ------------------------------------------------------ the host's changes
\* The list the host can replace the example's items with.
ReplacedItems ==
  << [type |-> "line", units |-> "s", name |-> "D",
      points |-> <<[x |-> 0, y |-> 3]>>, color |-> "red"],
     [type |-> "momentPoints", units |-> "m", name |-> "E",
      points |-> <<[x |-> 0, y |-> 0]>>, color |-> "blue"] >>

HostItemLists == { ExampleItems, ReplacedItems }

\* The color an item's getColor() returns after the item changed color.
otherColor(c) == IF c = "red" THEN "orange" ELSE "red"

InitHost ==
  /\ InitSized
  /\ props = mkProps(None, None, ExampleItems,
                     Some([units |-> "time", scale |-> "time"]), None)
  /\ rectWidth \in RectWidths
  /\ chart = NotEvaluated

\* The host renders the Chart with another chartItems array.  The props are
\* not shallowly equal to the ones before, so the observer lets the Chart
\* render and reports its observable props changed: the getters are stale,
\* and the mounted Sized renders with the new child function.
HostSetItems(items) ==
  /\ props' = [props EXCEPT !.chartItems = items]
  /\ items[1].name # props.chartItems[1].name
  /\ LET this == chartInstance(props', None)
     IN  /\ out' = [i \in Instances |->
                      IF phase[i] = "mounted"
                      THEN Sized_render(this, width[i]) ELSE out[i]]
         /\ cache' = [i \in Instances |->
                        IF phase[i] = "mounted"
                        THEN computedAfterRender(this, Sized_render(this, width[i]))
                        ELSE cache[i]]
  /\ renders' = [i \in Instances |->
                   IF phase[i] = "mounted" THEN countRender(renders[i])
                   ELSE renders[i]]
  /\ containerElement' =
       [i \in Instances |->
          IF phase[i] = "mounted"
          THEN Sized_attachElement(Sized_attachElement(containerElement[i], "null"), "div")
          ELSE containerElement[i]]
  /\ renderPending' = [i \in Instances |-> FALSE]
  /\ UNCHANGED <<phase, width, listeners, nextFn, rectWidth, lateCalls, chart, notes>>

\* The first item's getColor() returns another color from now on; the array
\* and the item objects stay the same.  When getColor reads a mobx
\* observable (tracked), the getters that called it become stale and the
\* render reaction that observes them is scheduled; when it reads plain
\* state, mobx sees no change.
HostRecolor(tracked) ==
  /\ props' = [props EXCEPT !.chartItems[1].color = otherColor(@)]
  /\ cache' = [i \in Instances |->
                 IF tracked THEN None ELSE cache[i]]
  /\ renderPending' =
       [i \in Instances |->
          renderPending[i] \/ (tracked /\ cache[i] # None)]
  /\ UNCHANGED <<phase, containerElement, width, out, listeners, nextFn,
                 rectWidth, lateCalls, chart, renders, notes>>

\* The chart's lifecycle in a layout that does not change, and the host's
\* changes.
NextHost ==
  \/ \E i \in Instances : Mount(i)
  \/ \E i \in Instances : Rerender(i)
  \/ \E i \in Instances : Unmount(i)
  \/ Resize
  \/ \E items \in HostItemLists : HostSetItems(items)
  \/ \E tracked \in BOOLEAN : HostRecolor(tracked)

SpecHost == InitHost /\ [][NextHost]_vars

\* ================================================================ the claims
Floor110(x) == IF x > 110 THEN x ELSE 110

\* The width prop is supplied and is not 0.
WidthSupplied == props.width # <<>> /\ props.width # <<0>>

\* Instance i is mounted and its last render used its current width.
Rendered(i) == phase[i] = "mounted" /\ ~renderPending[i]

\* C1: once componentWillUnmount has run for an instance, no resize handler
\* registered by that instance is still registered on the window.
C1_NoListenerAfterUnmount ==
  \A i \in Instances :
    phase[i] = "unmounted" =>
      \A k \in 1..Len(listeners) : listeners[k].this # i

\* C2: after an instance is unmounted, no step (a resize notification in
\* particular, whatever the container's width) changes its width or its
\* attached-element reference.
C2_NoChangeAfterUnmount ==
  [][\A i \in Instances :
       phase[i] = "unmounted" =>
         /\ width'[i] = width[i]
         /\ containerElement'[i] = containerElement[i]]_vars

\* An unmounted instance whose updateWidth was called by a resize
\* notification while the container's width differed from its width.
C2_Witness ==
  \E i \in Instances : phase[i] = "unmounted" /\ lateCalls[i]

\* C3: the width passed to renderChart is max(110, the width prop if it is
\* present and non-zero, otherwise the measured width), and so is never
\* below 110.
C3_EffectiveWidth ==
  \A i \in Instances :
    /\ phase[i] # "unborn" => out[i].children.width >= 110
    /\ Rendered(i) =>
         out[i].children.width =
           Floor110(IF WidthSupplied THEN props.width[1] ELSE width[i])

\* A render with a width prop of 0 and a measured width above the floor.
C3_Witness ==
  \E i \in Instances :
    /\ Rendered(i)
    /\ props.width = <<0>>
    /\ width[i] = 300
    /\ out[i].children.width = 300

\* C4 as stated: the effective width is max(110, s, m) for the supplied
\* width s and the measured width m.
C4_MaxOfSuppliedAndMeasured ==
  \A i \in Instances :
    Rendered(i) =>
      out[i].children.width =
        Floor110(IF props.width # <<>> /\ props.width[1] > width[i]
                 THEN props.width[1] ELSE width[i])

\* C4 amended: the effective width is max(110, s, m), except that a
\* supplied non-zero width s smaller than the measured width m gives
\* max(110, s).
C4_SuppliedWidthOverrides ==
  \A i \in Instances :
    Rendered(i) =>
      out[i].children.width =
        IF WidthSupplied /\ props.width[1] < width[i]
        THEN Floor110(props.width[1])
        ELSE Floor110(IF props.width # <<>> /\ props.width[1] > width[i]
                      THEN props.width[1] ELSE width[i])

\* A render with a supplied width of 200 and a measured width of 300.
C4_Witness ==
  \E i \in Instances :
    /\ Rendered(i)
    /\ props.width = <<200>>
    /\ width[i] = 300
    /\ out[i].children.width = 200

Items == props.chartItems
Element == chart.rendered.element
SomePoints == \E j \in 1..Len(Items) : Items[j].points # <<>>

\* C5: without an X-axis spec the composition is null, for every item list.
C5_NoXAxisYieldsNull ==
  (chart.evaluated /\ props.xAxis = <<>>) => Element = [op |-> "null"]

\* A chart with data and no X-axis spec was composed.
C5_Witness ==
  /\ chart.evaluated
  /\ props.xAxis = <<>>
  /\ SomePoints
  /\ Element.op = "null"

\* C6: with an X-axis spec, the composition is the placeholder, sized to
\* the given height, when every item's points are empty, and a populated
\* chart when some item has points.
C6_PlaceholderIffNoData ==
  (chart.evaluated /\ props.xAxis # <<>>) =>
    IF SomePoints
    THEN Element.op = "VictoryChart"
    ELSE /\ Element.op = "div"
         /\ Element.className = "Styles.noData"
         /\ Element.style.height = chart.rendered.height
         /\ chart.rendered.height =
              (IF props.height = <<>> THEN 110 ELSE props.height[1])

\* Items that all have empty points were composed with a height of 200.
C6_Witness ==
  /\ chart.evaluated
  /\ props.xAxis # <<>>
  /\ Len(Items) = 2
  /\ ~SomePoints
  /\ props.height = <<200>>
  /\ Element.op = "div"

\* The position in the item list where units value u is first seen.
FirstSeen(u) ==
  CHOOSE j \in 1..Len(Items) :
    Items[j].units = u /\ \A k \in 1..(j - 1) : Items[k].units # u

\* C7: the axis list has exactly one entry per distinct units value of the
\* item list, in the order in which the units values are first seen.
C7_OneAxisPerUnitFirstSeenOrder ==
  chart.evaluated =>
    LET ax == chart.yAxes
    IN  /\ { ax[a].units : a \in 1..Len(ax) } =
             { Items[j].units : j \in 1..Len(Items) }
        /\ Len(ax) = Cardinality({ Items[j].units : j \in 1..Len(Items) })
        /\ \A a, b \in 1..Len(ax) :
             a < b => FirstSeen(ax[a].units) < FirstSeen(ax[b].units)

\* Two items with different units, the later unit of the alphabet first.
C7_Witness ==
  /\ chart.evaluated
  /\ Len(Items) = 2
  /\ Items[1].units = "s"
  /\ Items[2].units = "m"
  /\ Len(chart.yAxes) = 2
  /\ chart.yAxes[1].units = "s"

\* C8: an axis has the color of the first item, in list order, with the
\* axis's units.
C8_AxisColorOfFirstItem ==
  chart.evaluated =>
    \A a \in 1..Len(chart.yAxes) :
      chart.yAxes[a].color = Items[FirstSeen(chart.yAxes[a].units)].color

\* Two items share a unit and differ in color.
C8_Witness ==
  /\ chart.evaluated
  /\ Len(Items) = 2
  /\ Items[1].units = Items[2].units
  /\ Items[1].color # Items[2].color
  /\ Len(chart.yAxes) = 1
  /\ chart.yAxes[1].color = Items[1].color

\* C9: the legend list has one entry per item, in item order, the j-th
\* with the j-th item's name and color, a square swatch and white labels.
C9_OneLegendPerItem ==
  chart.evaluated =>
    /\ Len(chart.legends) = Len(Items)
    /\ \A j \in 1..Len(Items) :
         /\ chart.legends[j].name = Items[j].name
         /\ chart.legends[j].symbol.fill = Items[j].color
         /\ chart.legends[j].symbol.type = "square"
         /\ chart.legends[j].labels.fill = "white"

\* Two items with different names share a unit.
C9_Witness ==
  /\ chart.evaluated
  /\ Len(Items) = 2
  /\ Items[1].units = Items[2].units
  /\ Items[1].name # Items[2].name
  /\ Len(chart.legends) = 2
  /\ Len(chart.yAxes) = 1

Recognised == {"line", "momentLines", "momentPoints"}

\* The function that draws an item of a recognised type.
DrawnBy(type) ==
  IF type = "line"
  THEN (IF props.renderLine = <<>> THEN "VictoryLine" ELSE props.renderLine[1])
  ELSE IF type = "momentLines" THEN "renderMomentLines"
  ELSE "renderMomentPoints"

\* C10: an item of an unrecognised type has a legend entry, has its units
\* among the axes, makes the chart populated when it has points, and is
\* not drawn, while the items of a recognised type are drawn.
C10_UnknownTypeSkipped ==
  chart.evaluated =>
    \A j \in 1..Len(Items) :
      Items[j].type \notin Recognised =>
        /\ Len(chart.legends) = Len(Items)
        /\ chart.legends[j].name = Items[j].name
        /\ \E a \in 1..Len(chart.yAxes) : chart.yAxes[a].units = Items[j].units
        /\ (props.xAxis # <<>> /\ Items[j].points # <<>>) =>
             Element.op = "VictoryChart"
        /\ Element.op = "VictoryChart" =>
             /\ Len(Element.children[4]) = Len(Items)
             /\ Element.children[4][j] = [op |-> "undefined"]
             /\ \A k \in 1..Len(Items) :
                  Items[k].type \in Recognised =>
                    /\ Element.children[4][k].op = DrawnBy(Items[k].type)
                    /\ Element.children[4][k] # [op |-> "undefined"]

\* An unrecognised item with points, next to a line without points, was
\* composed into a populated chart.
C10_Witness ==
  /\ chart.evaluated
  /\ Len(Items) = 2
  /\ Items[1].type = "unknownKind"
  /\ Items[1].points # <<>>
  /\ Items[2].type = "line"
  /\ Items[2].points = <<>>
  /\ props.renderLine = <<>>
  /\ Element.op = "VictoryChart"
  /\ Element.children[4][1].op = "undefined"
  /\ Element.children[4][2].op = "VictoryLine"

\* A resize listener bound to instance i is registered on the window.
Listening(i) == \E k \in 1..Len(listeners) : listeners[k].this = i

\* C11: the step that mounts an instance leaves it with the element
\* attached, with its width equal to the element's rendered width although
\* no resize notification has reached it, and with one more listener, bound
\* to it, registered on the window.
C11_MountMeasuresAndRegisters ==
  [][\A i \in Instances :
       (phase[i] = "unborn" /\ phase'[i] = "mounted") =>
         /\ containerElement'[i] = "div"
         /\ notes'[i] = <<>>
         /\ width'[i] = rectWidth'
         /\ Len(listeners') = Len(listeners) + 1
         /\ listeners'[Len(listeners')].this = i]_vars

\* A mounted instance that no resize notification has reached has the
\* container's width.
C11_Witness ==
  \E i \in Instances :
    /\ phase[i] = "mounted"
    /\ notes[i] = <<>>
    /\ rectWidth = 300
    /\ width[i] = 300
    /\ Listening(i)

\* C12: a resize notification sets the width of every instance it reaches
\* that has an element attached to that element's rendered width, and
\* leaves the width of an instance without an attached element, and every
\* element reference, unchanged.
C12_ResizeMeasuresAttachedElement ==
  [][Resize =>
       /\ containerElement' = containerElement
       /\ \A i \in Instances :
            width'[i] = IF Listening(i) /\ containerElement[i] = "div"
                        THEN rectWidth ELSE width[i]]_vars

\* A mounted instance processed two notifications with different container
\* widths and has the width of the second.
C12_Witness ==
  \E i \in Instances :
    /\ phase[i] = "mounted"
    /\ Len(notes[i]) = 2
    /\ notes[i][1] # notes[i][2]
    /\ width[i] = notes[i][2]
    /\ width[i] = 300

\* C13: a render of an instance that has processed resize notifications
\* uses the width measured at the most recent of them, and a notification
\* with the container width of the one before it leaves the width unchanged.
C13_RenderUsesLatestNotification ==
  [][\A i \in Instances :
       /\ (Rerender(i) /\ notes[i] # <<>>) =>
            out'[i].children.width =
              Floor110(IF WidthSupplied THEN props.width[1]
                       ELSE notes[i][Len(notes[i])])
       /\ (Resize /\ phase[i] = "mounted" /\ notes[i] # <<>>
            /\ notes[i][Len(notes[i])] = rectWidth) =>
            width'[i] = width[i]]_vars

\* A render followed two notifications, at widths 80 and then 300, and
\* used 300.
C13_Witness ==
  \E i \in Instances :
    /\ Rendered(i)
    /\ ~WidthSupplied
    /\ notes[i] = <<80, 300>>
    /\ out[i].children.width = 300

\* C14: the width is 0 before the mount and never negative; a step changes
\* it only by measuring (componentDidMount's updateWidth at the mount, or a
\* resize notification), to the element's rendered width; a re-render, with
\* its ref callbacks and the chart renderer, and the unmount leave it
\* unchanged.
C14_WidthChangedOnlyByUpdateWidth ==
  /\ [](\A i \in Instances :
          width[i] >= 0 /\ (phase[i] = "unborn" => width[i] = 0))
  /\ [][\A i \in Instances :
          /\ width'[i] # width[i] =>
               /\ Resize \/ Mount(i)
               /\ width'[i] = rectWidth
          /\ (Rerender(i) \/ Unmount(i)) => width'[i] = width[i]]_vars

\* An instance was measured at 300, rendered again and unmounted.
C14_Witness ==
  \E i \in Instances :
    /\ phase[i] = "unmounted"
    /\ renders[i] = "later"
    /\ width[i] = 300

\* C20: the first render of an instance, made before any measurement, uses
\* an effective width of 110 when no non-zero width prop is supplied,
\* whatever the container's width.
C20_FirstRenderAtFloor ==
  \A i \in Instances :
    renders[i] = "first" =>
      out[i].children.width =
        IF WidthSupplied THEN Floor110(props.width[1]) ELSE 110

\* An instance measured at 300 whose only render so far used 110.
C20_Witness ==
  \E i \in Instances :
    /\ renders[i] = "first"
    /\ ~WidthSupplied
    /\ width[i] = 300
    /\ out[i].children.width = 110

\* The first item of list items with units value u.
FirstWithUnits(items, u) ==
  items[CHOOSE j \in 1..Len(items) :
          items[j].units = u /\ \A k \in 1..(j - 1) : items[k].units # u]

\* The legend entries and the axes agree with the item list items.
DerivedFrom(legends, axes, items) ==
  /\ Len(legends) = Len(items)
  /\ \A j \in 1..Len(items) :
       /\ legends[j].name = items[j].name
       /\ legends[j].symbol.fill = items[j].color
  /\ { axes[a].units : a \in 1..Len(axes) } =
       { items[j].units : j \in 1..Len(items) }
  /\ \A a \in 1..Len(axes) :
       axes[a].color = FirstWithUnits(items, axes[a].units).color

\* C15: every render that composes a chart uses legend entries and axes
\* that agree with the chart items and the item colors current at that
\* render.
C15_RenderDerivesAfresh ==
  [][\A i \in Instances :
       ( /\ \/ Mount(i)
            \/ Rerender(i)
            \/ phase[i] = "mounted" /\ \E items \in HostItemLists : HostSetItems(items)
         /\ out'[i].children.element.op = "VictoryChart" ) =>
         DerivedFrom(out'[i].children.element.children[1].data,
                     cache'[i][1].yAxes,
                     props'.chartItems)]_vars

\* The chart was composed from the props and is populated.
Populated == chart.evaluated /\ Element.op = "VictoryChart"

\* The children of the populated chart that come from the chart items.
ItemOps == Element.children[4]

\* The index a drawing op was dispatched with.
IndexOf(e) == IF e.op = "VictoryLine" THEN e.key ELSE e.args.index

\* Drawing op e was made from item.
MadeFrom(e, item) ==
  IF e.op = "VictoryLine"
  THEN /\ Len(e.data) = Len(item.points)
       /\ \A q \in 1..Len(e.data) :
            /\ e.data[q].units = item.units
            /\ e.data[q].name = item.name
            /\ e.data[q].x = item.points[q].x
            /\ e.data[q].y = item.points[q].y
       /\ e.style.data.stroke = item.color
       /\ e.style.labels.fill = item.color
  ELSE e.args.chartItem = item

\* C16: in a populated chart the composition is the legend, the X axis, the
\* Y axes and then one entry per item in item order: a drawing op made from
\* the item, dispatched with the item's 0-based position, for an item of a
\* recognised type, and nothing for any other item.
C16_ItemOpsInOrderAfterAxes ==
  Populated =>
    /\ Len(Element.children) = 4
    /\ Element.children[1].op = "VictoryLegend"
    /\ Element.children[2].op = "VictoryAxis"
    /\ \A a \in 1..Len(Element.children[3]) :
         Element.children[3][a].op = "VictoryAxis"
    /\ Len(ItemOps) = Len(Items)
    /\ \A j \in 1..Len(Items) :
         IF Items[j].type \in Recognised
         THEN /\ ItemOps[j].op # "undefined"
              /\ IndexOf(ItemOps[j]) = j - 1
              /\ MadeFrom(ItemOps[j], Items[j])
         ELSE ItemOps[j].op = "undefined"

\* A moment-lines item followed by a line item were drawn, with indexes 0
\* and 1.
C16_Witness ==
  /\ Populated
  /\ Len(Items) = 2
  /\ Items[1].type = "momentLines"
  /\ Items[2].type = "line"
  /\ Items[1].name # Items[2].name
  /\ props.renderLine = <<>>
  /\ ItemOps[1].args.index = 0
  /\ ItemOps[2].key = 1

\* C17: with the default Y-axis renderer, the rendered Y axes are one per
\* axis entry, each a dependent axis labelled with the entry's units.
C17_DefaultYAxisLabelledByUnits ==
  Populated =>
    /\ Len(Element.children[3]) = Len(chart.yAxes)
    /\ \A a \in 1..Len(chart.yAxes) :
         /\ Element.children[3][a].dependentAxis
         /\ Element.children[3][a].label = chart.yAxes[a].units

\* C18: with a renderLine override every line item is drawn by the
\* override, without one every line item is drawn by the default line
\* strategy, and no item of another type is drawn by either.
C18_RenderLineOverride ==
  Populated =>
    \A j \in 1..Len(Items) :
      IF Items[j].type = "line"
      THEN ItemOps[j].op =
             (IF props.renderLine = <<>> THEN "VictoryLine" ELSE "props.renderLine")
      ELSE ItemOps[j].op \notin {"VictoryLine", "props.renderLine"}

\* Two line items and a renderLine override: both were drawn by the
\* override.
C18_Witness ==
  /\ Populated
  /\ props.renderLine = <<"props.renderLine">>
  /\ Len(Items) = 2
  /\ Items[1].type = "line"
  /\ Items[2].type = "line"
  /\ ItemOps[1].op = "props.renderLine"
  /\ ItemOps[2].op = "props.renderLine"

\* C19: the momentPoints strategy is called with the item, the whole item
\* list and the index; the momentLines strategy and a renderLine override
\* are called with the item and the index only, and the default line is
\* made from its own item.
C19_OnlyMomentPointsGetsSiblings ==
  Populated =>
    \A j \in 1..Len(Items) :
      /\ Items[j].type = "momentPoints" =>
           /\ ItemOps[j].op = "renderMomentPoints"
           /\ DOMAIN ItemOps[j].args = {"chartItem", "chartItems", "index"}
           /\ ItemOps[j].args.chartItems = Items
      /\ (Items[j].type = "momentLines"
            \/ (Items[j].type = "line" /\ props.renderLine # <<>>)) =>
           /\ DOMAIN ItemOps[j].args = {"chartItem", "index"}
           /\ ItemOps[j].args.chartItem = Items[j]
      /\ (Items[j].type = "line" /\ props.renderLine = <<>>) =>
           /\ "args" \notin DOMAIN ItemOps[j]
           /\ MadeFrom(ItemOps[j], Items[j])

\* A moment-points item and a moment-lines item were drawn: the first
\* strategy was given both items, the second its own item only.
C19_Witness ==
  /\ Populated
  /\ Len(Items) = 2
  /\ Items[1].type = "momentPoints"
  /\ Items[2].type = "momentLines"
  /\ ItemOps[1].args.chartItems = Items
  /\ "chartItems" \notin DOMAIN ItemOps[2].args

====
